---------------------------- MODULE Spec2Model ----------------------------
(***************************************************************************)
(* Model of the sumologic docker logging driver.                           *)
(*                                                                         *)
(*   Spec        the decode -> batch -> deliver pipeline of one logger     *)
(*               (consumeLogsFromFile, batchLogs, pushBatchToQueue,        *)
(*               handleBatchedLogs, sendLogs, writeMessage).               *)
(*   SpecFair    Spec under the fairness of the Go scheduler, the ticker   *)
(*               and an endpoint that answers.                             *)
(*   SpecDriver  the registry of loggers kept by sumoDriver                *)
(*               (StartLogging, startLoggingInternal, StopLogging).        *)
(*   SpecCount   the count-based pipeline of driver.go                     *)
(*               (consumeLogsFromFile, queueLogsForSending, sendLogs).     *)
(*                                                                         *)
(* Go channel operations, lock operations and the waits for the endpoint   *)
(* are the atomic steps: a goroutine's position (dec, bpc, spc, qpc, pc)   *)
(* names the operation it executes next, and the local code up to that     *)
(* operation is part of the step.                                          *)
(***************************************************************************)
EXTENDS Integers, Sequences, FiniteSets

\* ------------------------------------------------------------------ bounds
\* Frames the input file delivers before the model stops feeding it.
MaxFrames == 3
\* sumoLogger.batchSize (a configured value): the batch threshold, in bytes in
\* the batching pipeline and in logs in the count-based one of driver.go.
BatchSize == 2
\* Capacity of sumoLogger.logQueue (a configured value).
QueueSize == 1
\* Capacity of sumoLogger.logBatchQueue (a configured value): the model is
\* started with this one or with the smallest one, 1.
MaxBatchQueueSize == 2
\* Failed POSTs of one batch the endpoint is allowed before it must answer 200.
MaxRetries == 2

\* Goroutines of the host calling StartLogging / StopLogging concurrently.
NumCallers == 2
\* Calls the host makes in a run.
MaxCalls == 3

\* ------------------------------------------------------------------ values
\* The byte writeMessage puts after every line.
Newline == 10
\* http.StatusOK, the one status sendLogs takes for success.
StatusOK == 200
\* What httpClient.Do can produce: an error, or a response with a status code.
Responses == {[err |-> TRUE, status |-> 0], [err |-> FALSE, status |-> 200],
              [err |-> FALSE, status |-> 204], [err |-> FALSE, status |-> 500]}
\* What ReadMsg can consume: a frame that decodes (ok) into a LogEntry whose Line
\* has len bytes (a short line, one that fills a batch, an oversized one), or a
\* malformed one (ReadMsg returns an error other than io.EOF). An error raised
\* before the payload is decoded (bad length prefix, short read) leaves the
\* LogEntry as the previous iteration's log.Reset() left it, Line empty; an
\* error raised while decoding leaves the fields decoded so far, so Line may
\* hold bytes.
Frames == [ok : {TRUE}, len : {1, BatchSize, BatchSize + 1}]
            \cup [ok : {FALSE}, len : {0, 1}]
\* No log in hand, and no POST made yet.
NoLog == [id |-> 0, line |-> <<>>]
NoPost == [body |-> <<>>, ok200 |-> FALSE, attempt |-> 0]
\* The fifo paths the host names its log streams by.
Files == {"a", "b"}
Callers == 1..NumCallers
NoFile == "none"
\* loggers[file] when the map has no entry for file.
NoLogger == 0
\* sumoDriver.mu when no goroutine holds it.
Unlocked == 0

VARIABLES
  \* ---- pipeline (Spec)
  frames,               \* frames ReadMsg has consumed from inputFile, in order
  dec,                  \* consumeLogsFromFile: "read" | "send" (a sumoLog
                        \*   built from the last frame is in hand) | "done"
  inputFileOpen,        \* sumoLogger.inputFile not yet closed
  logQueue,             \* sumoLogger.logQueue (buffered channel)
  logQueueClosed,
  bpc,                  \* batchLogs: "select" | "evict_recv" |
                        \*            "evict_send" | "final_send" | "done"
  blog,                 \* the log batchLogs holds while pushBatchToQueue runs
  bret,                 \* the call site of the running pushBatchToQueue:
                        \*   "size" | "tick", or "none" when it is not running
  logBatch,             \* the sumoLogBatch of batchLogs: [logs, sizeBytes]
  logBatchQueue,        \* sumoLogger.logBatchQueue (buffered channel)
  logBatchQueueClosed,
  batchQueueSize,       \* capacity of logBatchQueue
  spc,                  \* handleBatchedLogs: "recv" | "send" | "done"
  sbatch,               \* the batch handleBatchedLogs is sending
  \* ---- pipeline history
  received,             \* logs batchLogs received from logQueue
  dropped,              \* logs batchLogs dropped as too large
  handed,               \* batches sent on logBatchQueue, in order
  evicted,              \* batches pushBatchToQueue received back and dropped
  dequeued,             \* batches handleBatchedLogs received
  delivered,            \* batches for which sendLogs returned nil
  posts,                \* bodies of the failed POSTs of the batch in flight
  lastPost,             \* the most recent POST: [body, ok200, attempt], ok200
                        \*   whether it was answered 200, attempt counting
                        \*   the POSTs of its batch
  \* ---- driver (SpecDriver)
  loggers,              \* sumoDriver.loggers: file -> index in created, or NoLogger
  mu,                   \* sumoDriver.mu: the caller holding it, or Unlocked
  pc,                   \* per caller: position in StartLogging / StopLogging
  callFile,             \* per caller: the file argument of the running call
  callLogger,           \* per caller: newSumoLogger of the running call
  created,              \* every sumoLogger constructed, in order:
                        \*   [file, open (inputQueueFile), decoding
                        \*   (consumeLogsFromFile has not returned), running
                        \*   (queueLogsForSending has not returned)]
  returned,             \* results of finished calls: [op, file, err]
  ncalls,               \* calls started so far
  overlapped,           \* per file: two calls for it were in progress at once
  \* ---- count-based pipeline of driver.go (SpecCount)
  pendingLogs,          \* queueLogsForSending: its local logs, the pending ones
  qpc,                  \* queueLogsForSending: "select" | "post" (in sendLogs,
                        \*   waiting for the answer to a POST) | "final_post"
                        \*   (the same in the closed-queue branch) | "done"
  sendI,                \* the loop index i of the running sendLogs
  posted,               \* the chunks makePostRequest returned nil for, in order
  discarded             \* what the sendLogs of the closed-queue branch
                        \*   returned, which queueLogsForSending drops

pipeVars == <<frames, dec, inputFileOpen, logQueue, logQueueClosed, bpc,
              blog, bret, logBatch, logBatchQueue, logBatchQueueClosed,
              batchQueueSize, spc, sbatch, received, dropped, handed, evicted,
              dequeued, delivered, posts, lastPost>>
driverVars == <<loggers, mu, pc, callFile, callLogger, created, returned, ncalls,
                overlapped>>
countVars == <<pendingLogs, qpc, sendI, posted, discarded>>
vars == <<pipeVars, driverVars, countVars>>

\* ----------------------------------------------------------------- helpers
RECURSIVE Flatten(_)
Flatten(ss) == IF ss = <<>> THEN <<>> ELSE Head(ss) \o Flatten(Tail(ss))

RECURSIVE SumLen(_)
SumLen(logs) == IF logs = <<>> THEN 0 ELSE Len(Head(logs).line) + SumLen(Tail(logs))

Range(s) == {s[i] : i \in 1..Len(s)}

\* ------------------------------------------------------------ sumoLogBatch
NewSumoLogBatch == [logs |-> <<>>, sizeBytes |-> 0]

\* sumoLogBatch.Reset.
Reset(b) == [logs |-> <<>>, sizeBytes |-> 0]

\* ------------------------------------------------------ consumeLogsFromFile
\* The sumoLog built from the LogEntry after ReadMsg consumed frame f as the
\* id-th frame: its line is f.len bytes, here all equal to id.
NewSumoLog(id, f) == [id |-> id, line |-> [j \in 1..f.len |-> id]]

decUnchanged == <<bpc, blog, bret, logBatch, logBatchQueue, logBatchQueueClosed,
                  batchQueueSize, spc, sbatch, received, dropped, handed, evicted,
                  dequeued, delivered, posts, lastPost, driverVars, countVars>>

\* ReadMsg returns io.EOF: inputFile.Close(); close(logQueue); return.
DecEOF ==
  /\ dec = "read"
  /\ inputFileOpen' = FALSE
  /\ logQueueClosed' = TRUE
  /\ dec' = "done"
  /\ UNCHANGED <<frames, logQueue>>
  /\ UNCHANGED decUnchanged

\* ReadMsg consumes a frame: a nil error and a non-EOF error both reach the
\* construction of the sumoLog (the error branch logs, rebuilds the reader and
\* falls through), which is then in hand for the send.
DecRead ==
  /\ dec = "read"
  /\ Len(frames) < MaxFrames
  /\ \E f \in Frames : frames' = Append(frames, f)
  /\ dec' = "send"
  /\ UNCHANGED <<inputFileOpen, logQueue, logQueueClosed>>
  /\ UNCHANGED decUnchanged

\* logQueue <- sumoLog, which waits while the Record Queue is full; log.Reset()
\* and the next iteration.
DecSend ==
  /\ dec = "send"
  /\ Len(logQueue) < QueueSize
  /\ logQueue' = Append(logQueue, NewSumoLog(Len(frames), frames[Len(frames)]))
  /\ dec' = "read"
  /\ UNCHANGED <<frames, inputFileOpen, logQueueClosed>>
  /\ UNCHANGED decUnchanged

\* ---------------------------------------------------------------- batchLogs
\* Mutant of TooLarge: a log that exactly fills a batch is dropped too.
TooLargeInclusive(log) == Len(log.line) >= BatchSize

\* if len(log.line) > sumoLogger.batchSize: the log is dropped.
TooLarge(log) == Len(log.line) > BatchSize

\* Mutant of Overflows: the size of the arriving log is left out of the test.
OverflowsBeforeAdding(b, log) == b.sizeBytes > BatchSize

\* if logBatch.sizeBytes + len(log.line) > sumoLogger.batchSize: the batch is
\* pushed before the log is appended.
Overflows(b, log) == b.sizeBytes + Len(log.line) > BatchSize

\* logBatch.logs = append(logBatch.logs, log); logBatch.sizeBytes += len(log.line).
AppendLog(b, log) ==
  [logs |-> Append(b.logs, log), sizeBytes |-> b.sizeBytes + Len(log.line)]

\* What batchLogs does after pushBatchToQueue returns: at the size call site the
\* log in hand starts the next batch, at the ticker call site nothing follows.
AfterPush(b, site, log) == IF site = "size" THEN AppendLog(b, log) ELSE b

\* Mutant of Evict: the newest queued batch is the one taken off.
EvictNewest(q) == [batch |-> q[Len(q)], rest |-> SubSeq(q, 1, Len(q) - 1)]

\* <-logBatchQueue in the default branch of pushBatchToQueue: the channel
\* yields its oldest batch.
Evict(q) == [batch |-> Head(q), rest |-> Tail(q)]

\* pushBatchToQueue up to the end of its select, called at site with log in
\* hand: the non-blocking send succeeds when the Delivery Queue has room, the
\* batch is reset and batchLogs goes on; otherwise the default branch is
\* entered, whose receive and send are steps of their own.
pushBatchToQueue(site, log) ==
  IF Len(logBatchQueue) < batchQueueSize
    THEN /\ logBatchQueue' = Append(logBatchQueue, logBatch.logs)
         /\ handed' = Append(handed, logBatch.logs)
         /\ logBatch' = AfterPush(Reset(logBatch), site, log)
         /\ UNCHANGED <<bpc, blog, bret>>
    ELSE /\ bpc' = "evict_recv"
         /\ blog' = log
         /\ bret' = site
         /\ UNCHANGED <<logBatchQueue, handed, logBatch>>

\* case log, open := <-logQueue with open = true.
BatchRecv ==
  /\ bpc = "select"
  /\ logQueue # <<>>
  /\ LET log == Head(logQueue) IN
       /\ logQueue' = Tail(logQueue)
       /\ received' = Append(received, log)
       /\ IF TooLarge(log)
            THEN /\ dropped' = Append(dropped, log)
                 /\ UNCHANGED <<bpc, blog, bret, logBatch, logBatchQueue, handed>>
            ELSE IF Overflows(logBatch, log)
              THEN /\ pushBatchToQueue("size", log)
                   /\ UNCHANGED dropped
              ELSE /\ logBatch' = AppendLog(logBatch, log)
                   /\ UNCHANGED <<dropped, bpc, blog, bret, logBatchQueue, handed>>
  /\ UNCHANGED <<frames, dec, inputFileOpen, logQueueClosed,
                 logBatchQueueClosed, batchQueueSize, spc, sbatch,
                 evicted, dequeued, delivered, posts, lastPost, driverVars, countVars>>

\* case log, open := <-logQueue with open = false: the Record Queue is closed
\* and drained.
BatchClosed ==
  /\ bpc = "select"
  /\ logQueue = <<>>
  /\ logQueueClosed
  /\ bpc' = "final_send"
  /\ UNCHANGED <<frames, dec, inputFileOpen, logQueue, logQueueClosed, blog,
                 bret, logBatch, logBatchQueue, logBatchQueueClosed,
                 batchQueueSize, spc, sbatch, received, dropped, handed, evicted,
                 dequeued, delivered, posts, lastPost, driverVars, countVars>>

\* sumoLogger.logBatchQueue <- logBatch.logs; close(logBatchQueue); return.
\* A plain channel send: it waits while the Delivery Queue is full.
BatchFinalSend ==
  /\ bpc = "final_send"
  /\ Len(logBatchQueue) < batchQueueSize
  /\ logBatchQueue' = Append(logBatchQueue, logBatch.logs)
  /\ handed' = Append(handed, logBatch.logs)
  /\ logBatchQueueClosed' = TRUE
  /\ bpc' = "done"
  /\ UNCHANGED <<frames, dec, inputFileOpen, logQueue, logQueueClosed, blog,
                 bret, logBatch, batchQueueSize, spc, sbatch, received, dropped,
                 evicted, dequeued, delivered, posts, lastPost, driverVars, countVars>>

\* case <-ticker.C.
BatchTick ==
  /\ bpc = "select"
  /\ IF Len(logBatch.logs) > 0
       THEN pushBatchToQueue("tick", NoLog)
       ELSE UNCHANGED <<bpc, blog, bret, logBatch, logBatchQueue, handed>>
  /\ UNCHANGED <<frames, dec, inputFileOpen, logQueue, logQueueClosed,
                 logBatchQueueClosed, batchQueueSize,
                 spc, sbatch, received, dropped, evicted, dequeued,
                 delivered, posts, lastPost, driverVars, countVars>>

\* --------------------------------------- pushBatchToQueue, default branch
pushUnchanged == <<frames, dec, inputFileOpen, logQueue, logQueueClosed,
                   logBatchQueueClosed, batchQueueSize, spc, sbatch, received,
                   dropped, dequeued, delivered, posts, lastPost, driverVars, countVars>>

\* default: <-logBatchQueue. A plain channel receive: it waits while the
\* Delivery Queue is empty.
PushEvictRecv ==
  /\ bpc = "evict_recv"
  /\ logBatchQueue # <<>>
  /\ evicted' = Append(evicted, Evict(logBatchQueue).batch)
  /\ logBatchQueue' = Evict(logBatchQueue).rest
  /\ bpc' = "evict_send"
  /\ UNCHANGED <<blog, bret, logBatch, handed>>
  /\ UNCHANGED pushUnchanged

\* default: logBatchQueue <- logBatch.logs; Reset(); then batchLogs goes on. A
\* plain channel send.
PushEvictSend ==
  /\ bpc = "evict_send"
  /\ Len(logBatchQueue) < batchQueueSize
  /\ logBatchQueue' = Append(logBatchQueue, logBatch.logs)
  /\ handed' = Append(handed, logBatch.logs)
  /\ logBatch' = AfterPush(Reset(logBatch), bret, blog)
  /\ blog' = NoLog
  /\ bret' = "none"
  /\ bpc' = "select"
  /\ UNCHANGED evicted
  /\ UNCHANGED pushUnchanged

\* ------------------------------------------------- sendLogs / writeMessage
\* writeMessage: every log's line followed by a newline, in order.
RECURSIVE writeMessage(_)
writeMessage(logs) ==
  IF logs = <<>> THEN <<>>
  ELSE (Head(logs).line \o <<Newline>>) \o writeMessage(Tail(logs))

\* What the collector did with a POST: it answered, and with status 200.
Answered200(resp) == ~resp.err /\ resp.status = StatusOK

\* Mutant of sendLogsOK: the status of the response is not looked at.
sendLogsOKAnyStatus(resp) == ~resp.err

\* sendLogs returns nil (TRUE) only for a response without error whose status
\* is http.StatusOK.
sendLogsOK(resp) == ~resp.err /\ resp.status = StatusOK

\* -------------------------------------------------------- handleBatchedLogs
sendUnchanged == <<frames, dec, inputFileOpen, logQueue, logQueueClosed,
                   bpc, blog, bret, logBatch, logBatchQueueClosed,
                   batchQueueSize, received, dropped, handed, evicted,
                   driverVars, countVars>>

\* <-logBatchQueue in handleBatchedLogs: the channel yields its oldest batch.
Dequeue(q) == [batch |-> Head(q), rest |-> Tail(q)]

\* Mutant of AfterSend: the inner loop is left after a failed POST too.
AfterSendAlwaysBreak(ok) == "recv"

\* The inner loop after sendLogs returned: break on nil, else sleep and send
\* the same logBatch again.
AfterSend(ok) == IF ok THEN "recv" ELSE "send"

\* logBatch, open := <-logBatchQueue with open = true.
SenderRecv ==
  /\ spc = "recv"
  /\ logBatchQueue # <<>>
  /\ sbatch' = Dequeue(logBatchQueue).batch
  /\ logBatchQueue' = Dequeue(logBatchQueue).rest
  /\ dequeued' = Append(dequeued, Dequeue(logBatchQueue).batch)
  /\ posts' = <<>>
  /\ spc' = "send"
  /\ UNCHANGED <<delivered, lastPost>>
  /\ UNCHANGED sendUnchanged

\* logBatch, open := <-logBatchQueue with open = false.
SenderClosed ==
  /\ spc = "recv"
  /\ logBatchQueue = <<>>
  /\ logBatchQueueClosed
  /\ spc' = "done"
  /\ UNCHANGED <<logBatchQueue, sbatch, dequeued, delivered, posts, lastPost>>
  /\ UNCHANGED sendUnchanged

\* err := sendLogs(logBatch): one POST. On nil the inner loop breaks; on an
\* error the goroutine sleeps retryInterval and sends the same logBatch again.
SenderPost ==
  /\ spc = "send"
  /\ \E resp \in Responses :
       /\ sendLogsOK(resp) \/ Len(posts) < MaxRetries
       /\ lastPost' = [body |-> writeMessage(sbatch),
                        ok200 |-> Answered200(resp),
                        attempt |-> Len(posts) + 1]
       /\ spc' = AfterSend(sendLogsOK(resp))
       /\ IF sendLogsOK(resp)
            THEN /\ delivered' = Append(delivered, sbatch)
                 /\ posts' = <<>>
            ELSE /\ posts' = Append(posts, writeMessage(sbatch))
                 /\ UNCHANGED delivered
  /\ UNCHANGED <<logBatchQueue, sbatch, dequeued>>
  /\ UNCHANGED sendUnchanged


\* ------------------------------------------- sendLogs (driver.go, by count)
\* makePostRequest returns nil only for a response without error whose status
\* is http.StatusOK.
makePostRequestOK(resp) == ~resp.err /\ resp.status = StatusOK

\* Mutant of SliceFrom: the slice starts after the chunk at i.
SliceAfterChunk(ls, i) == SubSeq(ls, i + BatchSize + 1, Len(ls))

\* logs[i:logsCount], i counting from 0.
SliceFrom(ls, i) == SubSeq(ls, i + 1, Len(ls))

\* upperBound of the chunk of ls that starts at i: i + batchSize, cut to
\* logsCount.
UpperBound(ls, i) == IF i + BatchSize > Len(ls) THEN Len(ls) ELSE i + BatchSize

\* ---------------------------------------- queueLogsForSending (driver.go)
countUnchanged == <<frames, dec, inputFileOpen, logQueueClosed, bpc, blog,
                    bret, logBatch, logBatchQueue, logBatchQueueClosed,
                    batchQueueSize, spc, sbatch, dropped, handed, evicted,
                    dequeued, delivered, posts, lastPost, driverVars>>

\* case <-timer.C: logs = sendLogs(logs). With no logs the loop of sendLogs is
\* not entered and logs[:0] comes back; otherwise the first chunk is POSTed
\* and sendLogs waits in httpClient.Do.
QueueTick ==
  /\ qpc = "select"
  /\ IF pendingLogs = <<>>
       THEN UNCHANGED <<qpc, sendI>>
       ELSE qpc' = "post" /\ sendI' = 0
  /\ UNCHANGED <<logQueue, received, pendingLogs, posted, discarded>>
  /\ UNCHANGED countUnchanged

\* case log, open := <-logQueue with open = true: the log is appended, and when
\* the number of pending logs is a multiple of batchSize sendLogs is called and
\* waits for the answer to its first POST.
QueueRecv ==
  /\ qpc = "select"
  /\ logQueue # <<>>
  /\ logQueue' = Tail(logQueue)
  /\ received' = Append(received, Head(logQueue))
  /\ pendingLogs' = Append(pendingLogs, Head(logQueue))
  /\ IF Len(pendingLogs') % BatchSize = 0
       THEN qpc' = "post" /\ sendI' = 0
       ELSE UNCHANGED <<qpc, sendI>>
  /\ UNCHANGED <<posted, discarded>>
  /\ UNCHANGED countUnchanged

\* case log, open := <-logQueue with open = false: sendLogs(logs); return.
\* With no logs sendLogs returns at once; otherwise it waits for the answer to
\* its first POST.
QueueClosed ==
  /\ qpc = "select"
  /\ logQueue = <<>>
  /\ logQueueClosed
  /\ IF pendingLogs = <<>>
       THEN qpc' = "done" /\ UNCHANGED sendI
       ELSE qpc' = "final_post" /\ sendI' = 0
  /\ UNCHANGED <<logQueue, received, pendingLogs, posted, discarded>>
  /\ UNCHANGED countUnchanged

\* httpClient.Do answers the POST of logs[i:upperBound] made by the loop of
\* sendLogs. On an error sendLogs returns logs[i:logsCount]; otherwise the loop
\* goes on with i + batchSize, POSTing the next chunk, or ends and returns
\* logs[:0]. The caller's logs is assigned when sendLogs returns; in the
\* closed-queue branch the result is not kept and queueLogsForSending returns.
QueuePost ==
  /\ qpc \in {"post", "final_post"}
  /\ \E resp \in Responses :
       IF makePostRequestOK(resp)
         THEN /\ posted' = Append(posted, SubSeq(pendingLogs, sendI + 1,
                                                 UpperBound(pendingLogs, sendI)))
              /\ IF sendI + BatchSize < Len(pendingLogs)
                   THEN /\ sendI' = sendI + BatchSize
                        /\ UNCHANGED <<qpc, pendingLogs, discarded>>
                   ELSE /\ sendI' = 0
                        /\ pendingLogs' = <<>>
                        /\ qpc' = IF qpc = "post" THEN "select" ELSE "done"
                        /\ UNCHANGED discarded
         ELSE /\ sendI' = 0
              /\ IF qpc = "post"
                   THEN /\ pendingLogs' = SliceFrom(pendingLogs, sendI)
                        /\ qpc' = "select"
                        /\ UNCHANGED discarded
                   ELSE /\ discarded' = SliceFrom(pendingLogs, sendI)
                        /\ pendingLogs' = <<>>
                        /\ qpc' = "done"
              /\ UNCHANGED posted
  /\ UNCHANGED <<logQueue, received>>
  /\ UNCHANGED countUnchanged

\* ------------------------------------------------------ startLoggingInternal
Return(c, op, err) == Append(returned, [op |-> op, file |-> callFile[c],
                                        err |-> err])

\* StartLogging(file, info) is called; sumoDriver.mu.Lock() of the first
\* critical section.
StartLock(c, f) ==
  /\ pc[c] = "idle"
  /\ ncalls < MaxCalls
  /\ mu = Unlocked
  /\ mu' = c
  /\ ncalls' = ncalls + 1
  /\ overlapped' = [overlapped EXCEPT
                      ![f] = @ \/ \E d \in Callers : callFile[d] = f]
  /\ callFile' = [callFile EXCEPT ![c] = f]
  /\ pc' = [pc EXCEPT ![c] = "start_check"]
  /\ UNCHANGED <<loggers, callLogger, created, returned, pipeVars, countVars>>

\* if _, exists := loggers[file]; exists { Unlock; return error }; Unlock.
StartCheck(c) ==
  /\ pc[c] = "start_check"
  /\ mu' = Unlocked
  /\ IF loggers[callFile[c]] # NoLogger
       THEN /\ returned' = Return(c, "start", "exists")
            /\ pc' = [pc EXCEPT ![c] = "idle"]
            /\ callFile' = [callFile EXCEPT ![c] = NoFile]
       ELSE /\ pc' = [pc EXCEPT ![c] = "start_open"]
            /\ UNCHANGED <<returned, callFile>>
  /\ UNCHANGED <<loggers, callLogger, created, ncalls, overlapped, pipeVars, countVars>>

\* fifo.OpenFifo, the option parsing and the construction of newSumoLogger, all
\* outside the lock. OpenFifo, or reading the root CA file, may fail.
StartOpen(c) ==
  /\ pc[c] = "start_open"
  /\ \E ok \in BOOLEAN :
       IF ok
         THEN /\ created' = Append(created, [file |-> callFile[c], open |-> TRUE,
                                             decoding |-> FALSE,
                                             running |-> FALSE])
              /\ callLogger' = [callLogger EXCEPT ![c] = Len(created) + 1]
              /\ pc' = [pc EXCEPT ![c] = "start_lock"]
              /\ UNCHANGED <<returned, callFile>>
         ELSE /\ returned' = Return(c, "start", "open failed")
              /\ pc' = [pc EXCEPT ![c] = "idle"]
              /\ callFile' = [callFile EXCEPT ![c] = NoFile]
              /\ UNCHANGED <<created, callLogger>>
  /\ UNCHANGED <<loggers, mu, ncalls, overlapped, pipeVars, countVars>>

\* sumoDriver.mu.Lock() of the second critical section.
StartLock2(c) ==
  /\ pc[c] = "start_lock"
  /\ mu = Unlocked
  /\ mu' = c
  /\ pc' = [pc EXCEPT ![c] = "start_insert"]
  /\ UNCHANGED <<loggers, callFile, callLogger, created, returned, ncalls, overlapped, pipeVars, countVars>>

\* Mutant of StartInsert: the insert replaces the whole map by the new entry.
StartInsertClobbers(c) ==
  /\ pc[c] = "start_insert"
  /\ loggers' = [g \in Files |-> IF g = callFile[c] THEN callLogger[c]
                                                      ELSE NoLogger]
  /\ mu' = Unlocked
  /\ pc' = [pc EXCEPT ![c] = "start_spawn"]
  /\ UNCHANGED <<callFile, callLogger, created, returned, ncalls, overlapped, pipeVars, countVars>>

\* loggers[file] = newSumoLogger; Unlock; return newSumoLogger, nil.
StartInsert(c) ==
  /\ pc[c] = "start_insert"
  /\ loggers' = [loggers EXCEPT ![callFile[c]] = callLogger[c]]
  /\ mu' = Unlocked
  /\ pc' = [pc EXCEPT ![c] = "start_spawn"]
  /\ UNCHANGED <<callFile, callLogger, created, returned, ncalls, overlapped, pipeVars, countVars>>

\* -------------------------------------------------------------- StartLogging
\* go consumeLogsFromFile(newSumoLogger); go queueLogsForSending(newSumoLogger);
\* return nil.
StartSpawn(c) ==
  /\ pc[c] = "start_spawn"
  /\ created' = [created EXCEPT ![callLogger[c]].decoding = TRUE,
                                ![callLogger[c]].running = TRUE]
  /\ returned' = Return(c, "start", "nil")
  /\ pc' = [pc EXCEPT ![c] = "idle"]
  /\ callFile' = [callFile EXCEPT ![c] = NoFile]
  /\ callLogger' = [callLogger EXCEPT ![c] = NoLogger]
  /\ UNCHANGED <<loggers, mu, ncalls, overlapped, pipeVars, countVars>>

\* --------------------------------------------------------------- StopLogging
\* StopLogging(file) is called; sumoDriver.mu.Lock().
StopLock(c, f) ==
  /\ pc[c] = "idle"
  /\ ncalls < MaxCalls
  /\ mu = Unlocked
  /\ mu' = c
  /\ ncalls' = ncalls + 1
  /\ overlapped' = [overlapped EXCEPT
                      ![f] = @ \/ \E d \in Callers : callFile[d] = f]
  /\ callFile' = [callFile EXCEPT ![c] = f]
  /\ pc' = [pc EXCEPT ![c] = "stop_body"]
  /\ UNCHANGED <<loggers, callLogger, created, returned, pipeVars, countVars>>

\* Mutant of StopBody: the delete empties the whole map.
StopBodyClearsAll(c) ==
  /\ pc[c] = "stop_body"
  /\ IF loggers[callFile[c]] # NoLogger
       THEN /\ created' = [created EXCEPT ![loggers[callFile[c]]].open = FALSE]
            /\ loggers' = [g \in Files |-> NoLogger]
       ELSE UNCHANGED <<created, loggers>>
  /\ mu' = Unlocked
  /\ returned' = Return(c, "stop", "nil")
  /\ pc' = [pc EXCEPT ![c] = "idle"]
  /\ callFile' = [callFile EXCEPT ![c] = NoFile]
  /\ UNCHANGED <<callLogger, ncalls, overlapped, pipeVars, countVars>>

\* if exists { inputQueueFile.Close(); delete(loggers, file) }; Unlock;
\* return nil.
StopBody(c) ==
  /\ pc[c] = "stop_body"
  /\ IF loggers[callFile[c]] # NoLogger
       THEN /\ created' = [created EXCEPT ![loggers[callFile[c]]].open = FALSE]
            /\ loggers' = [loggers EXCEPT ![callFile[c]] = NoLogger]
       ELSE UNCHANGED <<created, loggers>>
  /\ mu' = Unlocked
  /\ returned' = Return(c, "stop", "nil")
  /\ pc' = [pc EXCEPT ![c] = "idle"]
  /\ callFile' = [callFile EXCEPT ![c] = NoFile]
  /\ UNCHANGED <<callLogger, ncalls, overlapped, pipeVars, countVars>>

\* ------------------------------------- consumeLogsFromFile (driver.go), EOF
\* ReadMsg of the pipeline built by the i-th successful open returns io.EOF:
\* inputQueueFile.Close(); close(logQueue); return. The writer may have closed
\* the fifo, or StopLogging has closed inputQueueFile: what a read of a closed
\* fifo returns is decided by the fifo library, so the step is enabled in both
\* cases and never forced (on an error other than io.EOF the loop goes on).
ConsumeEOF(i) ==
  /\ i \in 1..Len(created)
  /\ created[i].decoding
  /\ created' = [created EXCEPT ![i].decoding = FALSE, ![i].open = FALSE]
  /\ UNCHANGED <<loggers, mu, pc, callFile, callLogger, returned, ncalls,
                 overlapped, pipeVars, countVars>>

\* ---------------------------------------- queueLogsForSending, closed queue
\* case log, open := <-logQueue with open = false, once the last sendLogs has
\* returned: queueLogsForSending returns. It comes after close(logQueue), and
\* host calls interleave between the two. Neither goroutine holds a reference
\* to sumoDriver.
QueueReturn(i) ==
  /\ i \in 1..Len(created)
  /\ created[i].running
  /\ ~created[i].decoding
  /\ created' = [created EXCEPT ![i].running = FALSE]
  /\ UNCHANGED <<loggers, mu, pc, callFile, callLogger, returned, ncalls,
                 overlapped, pipeVars, countVars>>

\* ------------------------------------------------------------ specification
InitDriver ==
  /\ loggers = [f \in Files |-> NoLogger]
  /\ mu = Unlocked
  /\ pc = [c \in Callers |-> "idle"]
  /\ callFile = [c \in Callers |-> NoFile]
  /\ callLogger = [c \in Callers |-> NoLogger]
  /\ created = <<>>
  /\ returned = <<>>
  /\ ncalls = 0
  /\ overlapped = [f \in Files |-> FALSE]

InitPipe ==
  /\ frames = <<>>
  /\ dec = "read"
  /\ inputFileOpen = TRUE
  /\ logQueue = <<>>
  /\ logQueueClosed = FALSE
  /\ bpc = "select"
  /\ blog = NoLog
  /\ bret = "none"
  /\ logBatch = NewSumoLogBatch
  /\ logBatchQueue = <<>>
  /\ logBatchQueueClosed = FALSE
  /\ batchQueueSize \in {1, MaxBatchQueueSize}
  /\ spc = "recv"
  /\ sbatch = <<>>
  /\ received = <<>>
  /\ dropped = <<>>
  /\ handed = <<>>
  /\ evicted = <<>>
  /\ dequeued = <<>>
  /\ delivered = <<>>
  /\ posts = <<>>
  /\ lastPost = NoPost

InitCount ==
  /\ pendingLogs = <<>>
  /\ qpc = "select"
  /\ sendI = 0
  /\ posted = <<>>
  /\ discarded = <<>>

Init == InitPipe /\ InitDriver /\ InitCount

Next ==
  \/ DecEOF \/ DecRead \/ DecSend
  \/ BatchRecv \/ BatchClosed \/ BatchFinalSend \/ BatchTick
  \/ PushEvictRecv \/ PushEvictSend
  \/ SenderRecv \/ SenderClosed \/ SenderPost

Spec == Init /\ [][Next]_vars

\* The scheduling the pipeline runs under: the Go scheduler runs every goroutine
\* that can take a step, a select with several ready cases picks among them at
\* random, the ticker keeps firing, and the endpoint answers (200 at the latest
\* after MaxRetries failures of a batch). Nothing is assumed of the input file.
Fairness ==
  /\ WF_vars(BatchRecv) /\ WF_vars(BatchClosed) /\ WF_vars(BatchFinalSend)
  /\ WF_vars(BatchTick) /\ WF_vars(PushEvictRecv) /\ WF_vars(PushEvictSend)
  /\ WF_vars(SenderRecv) /\ WF_vars(SenderClosed) /\ WF_vars(SenderPost)

SpecFair == Init /\ [][Next]_vars /\ Fairness

NextDriver ==
  \/ \E c \in Callers, f \in Files : StartLock(c, f)
  \/ \E c \in Callers : StartCheck(c)
  \/ \E c \in Callers : StartOpen(c)
  \/ \E c \in Callers : StartLock2(c)
  \/ \E c \in Callers : StartInsert(c)
  \/ \E c \in Callers : StartSpawn(c)
  \/ \E c \in Callers, f \in Files : StopLock(c, f)
  \/ \E c \in Callers : StopBody(c)
  \/ \E i \in 1..MaxCalls : ConsumeEOF(i)
  \/ \E i \in 1..MaxCalls : QueueReturn(i)

\* The registry alone: the pipeline variables stay at their initial values.
InitDriverOnly == Init /\ batchQueueSize = 1

SpecDriver == InitDriverOnly /\ [][NextDriver]_vars

\* The count-based pipeline of driver.go: its consumeLogsFromFile is the one of
\* the batching pipeline, line for line, and feeds queueLogsForSending.
NextCount ==
  DecEOF \/ DecRead \/ DecSend \/ QueueTick \/ QueueRecv \/ QueueClosed \/ QueuePost

SpecCount == InitDriverOnly /\ [][NextCount]_vars

\* =================================================================== claims
Suffix(s, n) == SubSeq(s, Len(s) - n + 1, Len(s))

Prefix(s, n) == SubSeq(s, 1, n)

\* ----------------------------------------------------------------------- C1
\* The pipelines of identity f that are running with their input file open.
ActivePipelines(f) ==
  {i \in 1..Len(created) :
     created[i].file = f /\ created[i].running /\ created[i].open}

\* The start calls for identity f that returned no error.
SuccessfulStarts(f) ==
  {i \in 1..Len(returned) :
     returned[i].op = "start" /\ returned[i].file = f /\ returned[i].err = "nil"}

StopsOf(f) ==
  {i \in 1..Len(returned) : returned[i].op = "stop" /\ returned[i].file = f}

\* C1: for every identity and every interleaving of start calls, at most one
\* start succeeds while the identity is active (two successful starts have a
\* stop between them), and no second pipeline exists for the identity.
C1_OnePipelinePerIdentity ==
  \A f \in Files :
    /\ Cardinality(ActivePipelines(f)) <= 1
    /\ \A i, j \in SuccessfulStarts(f) :
         i < j => \E k \in StopsOf(f) : i < k /\ k < j

\* ----------------------------------------------------------------------- C2
\* The Batcher is stuck on the Delivery Queue: at the plain send of the final
\* flush (or of the default branch) with the queue full and the Sender not at
\* its receive, so that it waits for the endpoint to accept the batch in
\* flight; or at the default branch's receive with the queue empty, where no
\* other goroutine will ever send.
BatcherBlocked ==
  \/ bpc = "final_send" /\ Len(logBatchQueue) >= batchQueueSize /\ spc # "recv"
  \/ bpc = "evict_send" /\ Len(logBatchQueue) >= batchQueueSize /\ spc # "recv"
  \/ bpc = "evict_recv" /\ logBatchQueue = <<>>

\* C2: the Batcher never blocks on the Delivery Queue: in no reachable state is
\* it waiting on a Delivery Queue send or receive.
C2_BatcherNeverBlocks == ~BatcherBlocked

\* ----------------------------------------------------------------------- C3
\* C3: the Delivery Queue never holds more than its capacity and always holds
\* the most recently handed batches in hand-off order; with no consumption by
\* the Sender the evicted batches are exactly the oldest ones, one for every
\* enqueue onto a full queue, so the queue is full once anything was evicted.
C3_DropOldest ==
  /\ Len(logBatchQueue) <= batchQueueSize
  /\ Len(logBatchQueue) <= Len(handed)
  /\ logBatchQueue = Suffix(handed, Len(logBatchQueue))
  /\ dequeued = <<>> =>
       /\ Len(evicted) + Len(logBatchQueue) = Len(handed)
       /\ evicted = Prefix(handed, Len(evicted))
       /\ (evicted # <<>> /\ bpc # "evict_send") =>
            Len(logBatchQueue) = batchQueueSize

\* Capacity 2, three batches enqueued with no consumption: the queue holds
\* batches 2 and 3 and batch 1 was evicted.
C3_Witness ==
  /\ batchQueueSize = 2
  /\ dequeued = <<>>
  /\ Len(handed) = 3
  /\ evicted = <<handed[1]>>
  /\ logBatchQueue = <<handed[2], handed[3]>>
  /\ bpc = "select"

\* ----------------------------------------------------------------------- C4
\* C4: every batch handed to the Delivery Queue, by any trigger, has a
\* cumulative payload size within the batch-size threshold, and the size the
\* Batcher keeps for the batch under accumulation is the sum of its lines.
C4_BatchWithinThreshold ==
  /\ \A i \in 1..Len(handed) : SumLen(handed[i]) <= BatchSize
  /\ logBatch.sizeBytes = SumLen(logBatch.logs)
  /\ logBatch.sizeBytes <= BatchSize

\* A batch of two records that reached the threshold exactly was flushed by
\* the size trigger, and the record that forced the flush started the next one.
C4_Witness ==
  /\ Len(handed) = 1
  /\ Len(handed[1]) = 2
  /\ SumLen(handed[1]) = BatchSize
  /\ bpc = "select"
  /\ Len(logBatch.logs) = 1
  /\ logBatch.logs[1].id = 3

\* ----------------------------------------------------------------------- C5
Fits(log) == Len(log.line) <= BatchSize

\* The logs the Batcher has received and not yet handed over: those of the
\* batch under accumulation and the one in hand while pushBatchToQueue runs.
\* Once batchLogs has returned its locals are gone.
Pending ==
  IF bpc = "done" THEN <<>>
  ELSE logBatch.logs \o (IF blog = NoLog THEN <<>> ELSE <<blog>>)

\* The frames ReadMsg decoded without an error.
DecodedFrames == {i \in 1..Len(frames) : frames[i].ok}

\* The records of the handed batches, in hand-off order, followed by the
\* pending ones are exactly the received records without the oversized ones,
\* in arrival order; nothing is pending once the Batcher has terminated; the
\* received records are distinct, so no record appears twice.
C5_Partition ==
  /\ Flatten(handed) \o Pending = SelectSeq(received, Fits)
  /\ \A i, j \in 1..Len(received) : i # j => received[i].id # received[j].id

\* Every record of a handed batch was decoded from the input.
C5_OnlyDecoded ==
  \A n \in 1..Len(handed) : \A k \in 1..Len(handed[n]) :
    handed[n][k].id \in DecodedFrames

\* C5: the batches partition the accepted input: the records of the handed
\* batches, in hand-off order, are exactly the received records without the
\* oversized ones, in arrival order, none twice, none missing, and none that
\* was not decoded from the input.
C5_BatchesPartitionInput == C5_Partition /\ C5_OnlyDecoded

\* ----------------------------------------------------------------------- C6
\* C6: a malformed frame yields no record: every record placed on the Record
\* Queue comes from a frame that decoded, and the records enqueued never
\* outnumber the decoded frames.
C6_MalformedFrameYieldsNoRecord ==
  /\ \A i \in 1..Len(logQueue) : logQueue[i].id \in DecodedFrames
  /\ \A i \in 1..Len(received) : received[i].id \in DecodedFrames
  /\ Len(received) + Len(logQueue) <= Cardinality(DecodedFrames)

\* ----------------------------------------------------------------------- C7
Oversized(log) == Len(log.line) > BatchSize

C7_Inv ==
  /\ \A i \in 1..Len(handed) : \A k \in 1..Len(handed[i]) : ~Oversized(handed[i][k])
  /\ \A k \in 1..Len(Pending) : ~Oversized(Pending[k])
  /\ dropped = SelectSeq(received, Oversized)
  /\ \A i \in 1..Len(received) :
       ~Oversized(received[i]) => received[i] \in Range(Flatten(handed) \o Pending)

\* The step that drops a record leaves the batch under accumulation, the
\* Batcher's position and the Delivery Queue as they were.
C7_DropStep ==
  dropped' # dropped =>
    /\ logBatch' = logBatch
    /\ bpc' = bpc
    /\ handed' = handed
    /\ logBatchQueue' = logBatchQueue

\* C7: a record longer than the batch-size threshold never appears in a batch,
\* dropping it does not change the batch being accumulated, and every record
\* that fits, before or after a drop, is batched.
C7_OversizedDropped == [](C7_Inv) /\ [][C7_DropStep]_vars

\* Record 2 was dropped as oversized while record 1 was pending, and record 3
\* joined record 1 in the same batch.
C7_Witness ==
  /\ Len(dropped) = 1
  /\ dropped[1].id = 2
  /\ Len(handed) >= 1
  /\ Len(handed[1]) = 2
  /\ handed[1][1].id = 1
  /\ handed[1][2].id = 3

\* ----------------------------------------------------------------------- C8
\* The request body of a batch: every record's line and a newline, in order.
ExpectedBody(b) == Flatten([i \in 1..Len(b) |-> b[i].line \o <<Newline>>])


C8_Inv ==
  /\ spc # "send" => posts = <<>>
  /\ \A i \in 1..Len(posts) : posts[i] = ExpectedBody(sbatch)
  /\ posts # <<>> =>
       /\ ~lastPost.ok200
       /\ lastPost.body = ExpectedBody(sbatch)
       /\ lastPost.attempt = Len(posts)
  /\ (posts = <<>> /\ delivered # <<>>) =>
       /\ lastPost.ok200
       /\ lastPost.body = ExpectedBody(delivered[Len(delivered)])

C8_Step ==
  \* a batch is delivered by a POST answered 200, the attempt after its k
  \* failed ones, and the Sender then leaves the retry loop
  /\ delivered' # delivered =>
       /\ spc = "send"
       /\ delivered' = Append(delivered, sbatch)
       /\ lastPost'.ok200
       /\ lastPost'.body = ExpectedBody(sbatch)
       /\ lastPost'.attempt = Len(posts) + 1
       /\ spc' = "recv"
       /\ posts' = <<>>
  \* a failed POST carries the batch's body and is followed by a retry of the
  \* same batch
  /\ Len(posts') > Len(posts) =>
       /\ spc = "send"
       /\ posts' = Append(posts, ExpectedBody(sbatch))
       /\ ~lastPost'.ok200
       /\ sbatch' = sbatch
       /\ spc' = "send"
       /\ delivered' = delivered
       /\ dequeued' = dequeued
  \* every POST is one or the other
  /\ lastPost' # lastPost => (delivered' # delivered \/ Len(posts') > Len(posts))

\* C8: for each dequeued batch the Sender POSTs until the first 200 and then
\* stops: k failures are followed by attempt k+1, every attempt carries the
\* batch's records in order, and only a 200 counts as success.
C8_RetryUntil200 == [](C8_Inv) /\ [][C8_Step]_vars

\* A batch of two records was delivered by its third POST.
C8_Witness ==
  /\ delivered # <<>>
  /\ Len(delivered[Len(delivered)]) = 2
  /\ lastPost.attempt = 3
  /\ lastPost.ok200
  /\ spc = "recv"

\* ----------------------------------------------------------------------- C9
RECURSIVE IsSubseq(_, _)
IsSubseq(a, b) ==
  IF a = <<>> THEN TRUE
  ELSE IF b = <<>> THEN FALSE
  ELSE IF Head(a) = Head(b) THEN IsSubseq(Tail(a), Tail(b))
  ELSE IsSubseq(a, Tail(b))

NotEvicted(b) == b \notin Range(evicted)

\* C9: batches are delivered in creation order: the delivered batches are a
\* subsequence of the handed ones, each delivered once; what the Sender has
\* dequeued and what is still queued are exactly the handed batches that were
\* not evicted, in hand-off order; and the Sender holds at most one dequeued
\* batch without a 200, the one it is sending.
C9_DeliveredInOrder ==
  /\ IsSubseq(delivered, handed)
  /\ \A i, j \in 1..Len(delivered) : i # j => delivered[i] # delivered[j]
  /\ SelectSeq(handed, NotEvicted) = dequeued \o logBatchQueue
  /\ Len(delivered) <= Len(dequeued)
  /\ delivered = Prefix(dequeued, Len(delivered))
  /\ IF spc = "send"
       THEN /\ Len(dequeued) = Len(delivered) + 1
            /\ sbatch = dequeued[Len(dequeued)]
       ELSE dequeued = delivered
  /\ spc = "done" => delivered = SelectSeq(handed, NotEvicted)

\* Three batches were handed over, the first was evicted, and the other two
\* were delivered in their order.
C9_Witness ==
  /\ Len(handed) = 3
  /\ evicted = <<handed[1]>>
  /\ delivered = <<handed[2], handed[3]>>
  /\ handed[3] # <<>>

\* ---------------------------------------------------------------------- C10
\* The batch the Sender has dequeued and not yet delivered.
InFlight == IF spc = "send" THEN sbatch ELSE <<>>

\* Every place a received record can be in, one after the other.
Whereabouts ==
  dropped \o Flatten(evicted) \o Flatten(delivered) \o InFlight
    \o Flatten(logBatchQueue) \o Pending

\* The places hold exactly the records the Batcher received, each of them in
\* exactly one place - dropped as oversized, in an evicted batch, pending (in
\* the current batch, in the Delivery Queue or in flight) or in one delivered
\* batch - and nothing else is there; evicted, queued, in-flight and delivered
\* batches are whole handed batches; once the Sender has terminated nothing is
\* pending.
C10_Inv ==
  /\ Len(Whereabouts) = Len(received)
  /\ Range(Whereabouts) = Range(received)
  /\ Cardinality(Range(received)) = Len(received)
  /\ \A k \in 1..Len(dropped) : Len(dropped[k].line) > BatchSize
  /\ Range(evicted) \cup Range(delivered) \cup Range(logBatchQueue)
       \subseteq Range(handed)
  /\ spc = "send" => sbatch \in Range(handed)
  /\ spc = "done" => (bpc = "done" /\ logBatchQueue = <<>> /\ Pending = <<>>)

\* A batch becomes an evicted one only by being taken from a full Delivery
\* Queue.
C10_Step == Len(evicted') > Len(evicted) => Len(logBatchQueue) >= batchQueueSize

\* C10: no record is silently lost: every record the Batcher received is in
\* exactly one of the states dropped as oversized, part of a whole batch
\* evicted from a full Delivery Queue, still pending, or in exactly one
\* delivered batch; batches are lost or delivered only whole.
C10_NoSilentLoss == [](C10_Inv) /\ [][C10_Step]_vars

\* ---------------------------------------------------------------------- C11
\* What holds in every state: the Delivery Queue is closed exactly when the
\* Batcher has terminated, the Batcher sees the closure only when the Record
\* Queue is closed and drained, and on termination every accepted record is in a
\* handed batch, in arrival order.
C11_Inv ==
  /\ logBatchQueueClosed <=> bpc = "done"
  /\ bpc \in {"final_send", "done"} => (logQueueClosed /\ logQueue = <<>>)
  /\ bpc = "final_send" =>
       Flatten(handed) \o logBatch.logs = SelectSeq(received, Fits)
  /\ bpc = "done" =>
       /\ Len(handed) >= 1
       /\ Flatten(handed) = SelectSeq(received, Fits)

\* What every step keeps: after the closure was seen there is exactly one
\* hand-off, of the batch under accumulation, together with the close of the
\* Delivery Queue and the return; nothing is handed over afterwards.
C11_Step ==
  /\ (bpc = "final_send" /\ bpc' # bpc) =>
       /\ bpc' = "done"
       /\ handed' = Append(handed, logBatch.logs)
       /\ logBatchQueueClosed'
  /\ (bpc = "final_send" /\ bpc' = bpc) => handed' = handed
  /\ bpc = "done" => (bpc' = "done" /\ handed' = handed)
  /\ (bpc = "final_send" /\ handed = <<>> /\ bpc' = "done") =>
       handed' = <<SelectSeq(received, Fits)>>

\* C11: when the Record Queue is closed the Batcher hands over the pending
\* batch exactly once, with the records accumulated since the last flush in
\* arrival order, closes the Delivery Queue and terminates.
C11_FinalFlushOnce ==
  /\ [](C11_Inv)
  /\ [][C11_Step]_vars
  /\ logQueueClosed ~> (bpc = "done" /\ logBatchQueueClosed)

\* ---------------------------------------------------------------------- C12
\* Every stage has terminated and nothing is left in the Delivery Queue.
ShutDown ==
  /\ dec = "done" /\ bpc = "done" /\ spc = "done"
  /\ logBatchQueue = <<>>
  /\ delivered = dequeued

\* C12: shutdown completes: once the input has reached end-of-stream (the
\* Decoder has closed the Record Queue and returned), the Batcher eventually
\* flushes and closes the Delivery Queue and the Sender eventually delivers
\* what is queued and terminates.
C12_ShutdownCompletes == (dec = "done") ~> ShutDown

\* ---------------------------------------------------------------------- C13
\* The calls for identity f as they would run alone, one after the other: the
\* returned calls evs are replayed from the registration reg, and the result is
\* whether every returned error is the one the replay gives, and whether f is
\* registered at the end. A start of an unregistered identity returns nil and
\* registers it, or fails to open the fifo; a start of a registered one returns
\* the conflict error; a stop returns nil and unregisters.
RECURSIVE Replay(_, _, _)
Replay(evs, f, reg) ==
  IF evs = <<>> THEN [ok |-> TRUE, reg |-> reg]
  ELSE LET e == Head(evs) IN
    IF e.file # f THEN Replay(Tail(evs), f, reg)
    ELSE IF e.op = "stop"
      THEN IF e.err = "nil" THEN Replay(Tail(evs), f, FALSE)
           ELSE [ok |-> FALSE, reg |-> reg]
    ELSE IF reg
      THEN IF e.err = "exists" THEN Replay(Tail(evs), f, TRUE)
           ELSE [ok |-> FALSE, reg |-> reg]
    ELSE IF e.err = "nil" THEN Replay(Tail(evs), f, TRUE)
    ELSE IF e.err = "open failed" THEN Replay(Tail(evs), f, FALSE)
    ELSE [ok |-> FALSE, reg |-> reg]

\* No call for identity f is in progress.
Quiet(f) == \A c \in Callers : callFile[c] # f

\* Whatever the calls for other identities do meanwhile, the calls for f, when
\* no two of them were in progress at once, return what they return alone and
\* leave f registered as alone.
C13_Inv ==
  \A f \in Files :
    ~overlapped[f] =>
      LET alone == Replay(returned, f, FALSE) IN
        /\ alone.ok
        /\ Quiet(f) => ((loggers[f] # NoLogger) = alone.reg)

\* The entry of an identity changes only in the insert or the delete of a call
\* for that identity, so no call overwrites or loses another identity's update.
C13_Step ==
  \A f \in Files :
    loggers'[f] # loggers[f] =>
      \E c \in Callers :
        /\ callFile[c] = f
        /\ pc[c] \in {"start_insert", "stop_body"}
        /\ pc'[c] # pc[c]

\* C13: concurrent start and stop calls for distinct identities do not
\* interfere: each identity's returned errors and registry entry are those of
\* its own calls run alone, and no registry update is lost.
C13_DistinctIdentitiesIndependent == [](C13_Inv) /\ [][C13_Step]_vars

\* Two starts for distinct identities overlapped (the pipeline of "a" was built
\* first, the start of "b" returned first) and both identities are registered
\* with their own pipelines.
C13_Witness ==
  /\ Len(created) = 2 /\ created[1].file = "a" /\ created[2].file = "b"
  /\ Len(returned) = 2
  /\ returned[1].file = "b" /\ returned[1].err = "nil"
  /\ returned[2].file = "a" /\ returned[2].err = "nil"
  /\ loggers["a"] = 1 /\ loggers["b"] = 2

\* ---------------------------------------------------------------------- C14
\* C14: removal from the registry is the last step of a shutdown: as long as
\* the stages of a started pipeline are still running, its identity is
\* registered, so no start for the identity can succeed meanwhile.
C14_RemovalIsLast ==
  \A i \in 1..Len(created) :
    created[i].running => loggers[created[i].file] # NoLogger

\* ---------------------------------------------------------------------- C15
\* The stages of pipeline i have terminated: both its goroutines have returned
\* and its input file is closed.
Ended(i) == ~created[i].decoding /\ ~created[i].running /\ ~created[i].open

\* C15: the registry holds an identity only while that identity's pipeline is
\* active: the pipeline an entry refers to has not terminated.
C15_EndedPipelineUnregistered ==
  \A f \in Files : loggers[f] # NoLogger => ~Ended(loggers[f])

\* ---------------------------------------------------------------------- C16
\* Record i is in the batch under accumulation.
PendingId(i) == \E k \in 1..Len(logBatch.logs) : logBatch.logs[k].id = i

\* Record i is in a batch that was handed to the Delivery Queue.
HandedId(i) ==
  \E n \in 1..Len(handed) : \E k \in 1..Len(handed[n]) : handed[n][k].id = i

\* With nothing pending no step of the Batcher enqueues or evicts a batch.
C16_EmptyTickNoOp ==
  (bpc = "select" /\ logBatch.logs = <<>>) =>
    /\ handed' = handed
    /\ evicted' = evicted
    /\ Len(logBatchQueue') <= Len(logBatchQueue)

\* C16: the time-triggered flush is exact and live: a tick with an empty
\* pending batch changes nothing, and every record appended to the pending
\* batch is eventually handed to the Delivery Queue, whether or not another
\* record arrives or the Record Queue is closed.
C16_TimerFlushLive ==
  /\ [][C16_EmptyTickNoOp]_vars
  /\ \A i \in 1..MaxFrames : PendingId(i) ~> HandedId(i)

\* ---------------------------------------------------------------------- C17
\* Every stop that has returned returned no error.
C17_Inv ==
  \A i \in 1..Len(returned) : returned[i].op = "stop" => returned[i].err = "nil"

\* The step in which a stop call for identity f acts and returns: f is
\* unregistered afterwards and every other entry is as before; when f was
\* registered the input file of the registered pipeline, and of no other, is
\* closed; when it was not, registry and pipelines are as before.
C17_Step ==
  \A c \in Callers :
    (pc[c] = "stop_body" /\ pc'[c] # pc[c]) =>
      LET f == callFile[c] IN
        /\ returned' = Append(returned, [op |-> "stop", file |-> f,
                                         err |-> "nil"])
        /\ loggers'[f] = NoLogger
        /\ \A g \in Files \ {f} : loggers'[g] = loggers[g]
        /\ Len(created') = Len(created)
        /\ \A i \in 1..Len(created) :
             IF i = loggers[f]
               THEN created'[i] = [created[i] EXCEPT !.open = FALSE]
               ELSE created'[i] = created[i]

\* C17: stop always returns no error; for a registered identity it closes that
\* pipeline's input and removes exactly that identity, leaving every other
\* identity's entry and pipeline untouched; for an unregistered identity it
\* changes nothing.
C17_StopFrameEffect == [](C17_Inv) /\ [][C17_Step]_vars

\* Both identities were started and "a" was stopped: "a" is unregistered and
\* its input closed, "b" is registered with its input open.
C17_Witness ==
  /\ Len(returned) = 3
  /\ returned[3] = [op |-> "stop", file |-> "a", err |-> "nil"]
  /\ loggers["a"] = NoLogger
  /\ loggers["b"] # NoLogger
  /\ created[loggers["b"]].open
  /\ \E i \in 1..Len(created) : created[i].file = "a" /\ ~created[i].open

\* ---------------------------------------------------------------------- C18
\* C18: no empty batch: every batch handed to the Delivery Queue, by whichever
\* trigger, and every batch the Sender POSTs holds at least one record.
C18_NoEmptyBatch ==
  /\ \A i \in 1..Len(handed) : handed[i] # <<>>
  /\ \A i \in 1..Len(logBatchQueue) : logBatchQueue[i] # <<>>
  /\ spc = "send" => sbatch # <<>>
  /\ lastPost # NoPost => lastPost.body # <<>>

\* ---------------------------------------------------------------------- C19
C19_Step == evicted' # evicted => Len(logBatchQueue) = batchQueueSize

\* C19: a batch is evicted only from a full Delivery Queue: in the step that
\* takes a batch back from the queue the queue is at its capacity.
C19_EvictOnlyWhenFull == [][C19_Step]_vars

\* ---------------------------------------------------------------------- C20
\* The logs the running sendLogs has not POSTed with success: logs[i:logsCount].
Unsent == SubSeq(pendingLogs, sendI + 1, Len(pendingLogs))

\* At the select of queueLogsForSending the pending list is the received
\* records that are in no successful POST, in arrival order, behind the records
\* of the successful POSTs. While sendLogs runs the list still holds the chunks
\* already POSTed (it is assigned when sendLogs returns) and the unsent records
\* are the ones from the loop index on, which is where the next chunk starts.
\* After the last sendLogs the records in no successful POST are the discarded
\* ones. A successful POST holds between one and batchSize records; the
\* received records are distinct, so none is in two successful POSTs.
C20_Inv ==
  /\ qpc = "select" => (sendI = 0 /\ received = Flatten(posted) \o pendingLogs)
  /\ qpc \in {"post", "final_post"} =>
       /\ sendI < Len(pendingLogs) /\ sendI % BatchSize = 0
       /\ received = Flatten(posted) \o Unsent
       /\ Flatten(Suffix(posted, sendI \div BatchSize)) = Prefix(pendingLogs, sendI)
  /\ qpc = "done" => received = Flatten(posted) \o discarded
  /\ \A i \in 1..Len(posted) :
       Len(posted[i]) >= 1 /\ Len(posted[i]) <= BatchSize
  /\ Cardinality(Range(received)) = Len(received)

\* A step that POSTs with success adds one chunk, taken from the front of the
\* unsent logs: it is full, or it is everything that was unsent. A sendLogs
\* that returns to the select loop leaves as the pending list what was unsent
\* at the failing POST, or nothing after its last POST succeeded.
C20_Step ==
  /\ posted' # posted =>
       /\ qpc \in {"post", "final_post"}
       /\ \E n \in 1..BatchSize :
            /\ posted' = Append(posted, Prefix(Unsent, n))
            /\ n = BatchSize \/ n = Len(Unsent)
  /\ (qpc = "post" /\ qpc' = "select") =>
       pendingLogs' = (IF posted' = posted THEN Unsent ELSE <<>>)
  /\ (qpc = "post" /\ qpc' = "post") => pendingLogs' = pendingLogs

\* C20: in the count-based pipeline the pending list is exactly the suffix of
\* the received records not yet part of a successful POST; sendLogs POSTs
\* chunks of at most batchSize records in order, stops at the first failing
\* chunk and returns it with everything after it, so nothing is dropped on a
\* failure and nothing is in two successful POSTs.
C20_PendingIsUnsentSuffix == [](C20_Inv) /\ [][C20_Step]_vars

\* A POST of the first batchSize records failed, one more record arrived, and
\* the sendLogs of a tick has POSTed the first chunk with success and waits
\* for the answer to the POST of the second.
C20_Witness ==
  /\ qpc = "post"
  /\ sendI = BatchSize
  /\ Len(received) = BatchSize + 1
  /\ pendingLogs = received
  /\ posted = <<Prefix(received, BatchSize)>>

=============================================================================
